---- MODULE Spec2Model ----
(***************************************************************************)
(* RUBY meeting assistant (RUBY-meeting.py): query routing, the two answer *)
(* chains, and the conversation history kept in st.session_state and in    *)
(* chat_history.json.                                                      *)
(*                                                                         *)
(* Text is a sequence of one-character strings.  A Python value stored in  *)
(* a message is [type |-> "str" | "dict", val |-> text]; for a dict, val   *)
(* is the text str() gives for it.  A JSON value in the file is            *)
(* [json |-> "string" | "object", val |-> text].                           *)
(***************************************************************************)
EXTENDS Integers, Sequences, FiniteSets, TLC

\* ------------------------------------------------------------------ bounds
NumSessions == 2
MaxTurns == 2

Sessions == 1..NumSessions

\* -------------------------------------------------------------------- text
Keyword == <<"m", "e", "e", "t", "i", "n", "g">>

Lower(c) ==
    CASE c = "M" -> "m" [] c = "E" -> "e" [] c = "T" -> "t" [] c = "I" -> "i"
      [] c = "N" -> "n" [] c = "G" -> "g" [] c = "J" -> "j" [] c = "O" -> "o"
      [] c = "K" -> "k" [] c = "A" -> "a" [] c = "S" -> "s" [] c = "X" -> "x"
      [] OTHER -> c

Upper(c) ==
    CASE c = "m" -> "M" [] c = "e" -> "E" [] c = "t" -> "T" [] c = "i" -> "I"
      [] c = "n" -> "N" [] c = "g" -> "G" [] c = "j" -> "J" [] c = "o" -> "O"
      [] c = "k" -> "K" [] c = "a" -> "A" [] c = "s" -> "S" [] c = "x" -> "X"
      [] OTHER -> c

\* str.lower()
lower(text) == [i \in 1..Len(text) |-> Lower(text[i])]

\* Python's `sub in text`
Contains(sub, text) ==
    \E i \in 0..(Len(text) - Len(sub)) : SubSeq(text, i + 1, i + Len(sub)) = sub

\* Mutant: the match without .lower()
is_coimbatore_query_case_sensitive(query) == Contains(Keyword, query)

\* is_coimbatore_query(query): "meeting" in query.lower()
is_coimbatore_query(query) == Contains(Keyword, lower(query))

\* ----------------------------------------------------------- Python values
PyStr(text) == [type |-> "str", val |-> text]
PyDict(text) == [type |-> "dict", val |-> text]

\* isinstance(v, dict)
IsDict(v) == v.type = "dict"

\* str(v): a str is itself, a dict becomes its printed form
Str(v) == PyStr(v.val)

Human == PyStr(<<"h", "u", "m", "a", "n">>)
Ai == PyStr(<<"a", "i">>)

\* Message: {"origin": ..., "message": ...}
Message(origin, message) == [origin |-> origin, message |-> message]

\* f"{msg['origin']}: {msg['message']}"
Line(msg) == Str(msg.origin).val \o <<":", " ">> \o Str(msg.message).val

RECURSIVE JoinLines(_)
\* "\n".join(lines)
JoinLines(lines) ==
    IF Len(lines) = 0 THEN <<>>
    ELSE IF Len(lines) = 1 THEN lines[1]
    ELSE lines[1] \o <<"\n">> \o JoinLines(Tail(lines))

\* context = "\n".join([... for msg in st.session_state.history])
Context(history) == JoinLines([i \in 1..Len(history) |-> Line(history[i])])

\* Mutant: the chain is given the query alone
ChainInput_without_context(history, user_input) == user_input

\* context + "\n" + user_input
ChainInput(history, user_input) == Context(history) \o <<"\n">> \o user_input

\* ------------------------------------------------------------ the chains
\* What the text-completion call gives back: an answer, or an exception.
Failure == [ok |-> FALSE, answer |-> PyStr(<<>>)]
Completion(answer) == [ok |-> TRUE, answer |-> answer]

\* rag_chain = create_retrieval_chain(retriever, question_answer_chain), with
\* the prompt ("system", ...{context}...), ("human", "{input}"): the chain hands
\* the "input" key both to the retriever and to the prompt.
\* response = retrieval_chain.invoke({"input": input}); answer = response['answer']
retrieval_chain_invoke(input, r) ==
    [raised |-> ~r.ok,
     answer |-> r.answer,
     retrieverQuery |-> input,
     promptInput |-> input,
     retrievalCalls |-> 1,
     generalCalls |-> 0]

\* general_chain = general_prompt | llm | StrOutputParser(), with the prompt
\* ("user", "Question: {input}"); no retriever takes part.
general_chain_invoke(input, r) ==
    [raised |-> ~r.ok,
     answer |-> r.answer,
     retrieverQuery |-> <<>>,
     promptInput |-> input,
     retrievalCalls |-> 0,
     generalCalls |-> 1]

\* Mutant: every query goes to the retrieval chain
Invoke_always_retrieval(history, user_input, r) ==
    retrieval_chain_invoke(Context(history) \o <<"\n">> \o user_input, r)

\* on_click_callback, lines 112-118: build the context, route, invoke.
Invoke(history, user_input, r) ==
    IF is_coimbatore_query(user_input)
    THEN retrieval_chain_invoke(ChainInput(history, user_input), r)
    ELSE general_chain_invoke(ChainInput(history, user_input), r)

\* Mutant: the two appends in the other order
AppendTurn_answer_first(history, user_input, answer) ==
    Append(Append(history, Message(Ai, answer)), Message(Human, PyStr(user_input)))

\* on_click_callback, lines 121-122: the two appends.
AppendTurn(history, user_input, answer) ==
    Append(Append(history, Message(Human, PyStr(user_input))), Message(Ai, answer))

\* ---------------------------------------------------------------- the file
AbsentFile == [exists |-> FALSE, kind |-> "none", arr |-> <<>>, size |-> 0]

\* json.dump of one value / json.load of one value
ToJsonValue(v) ==
    IF v.type = "str" THEN [json |-> "string", val |-> v.val]
    ELSE [json |-> "object", val |-> v.val]
FromJsonValue(j) ==
    IF j.json = "string" THEN PyStr(j.val) ELSE PyDict(j.val)

\* json.dump(history_to_save, f): a list of {"origin": ..., "message": ...}
ToJson(history) ==
    [i \in 1..Len(history) |->
        [origin |-> ToJsonValue(history[i].origin),
         message |-> ToJsonValue(history[i].message)]]

\* json.load(f)
FromJson(arr) ==
    [i \in 1..Len(arr) |->
        Message(FromJsonValue(arr[i].origin), FromJsonValue(arr[i].message))]

\* Number of characters json.dump writes for a value and for the list.
JsonValueSize(j) == IF j.json = "string" THEN Len(j.val) + 2 ELSE Len(j.val)
RECURSIVE JsonSize(_)
JsonSize(arr) ==
    IF Len(arr) = 0 THEN 2
    ELSE IF Len(arr) = 1
         THEN 2 + 25 + JsonValueSize(arr[1].origin) + JsonValueSize(arr[1].message)
         ELSE 2 + 25 + JsonValueSize(arr[1].origin) + JsonValueSize(arr[1].message)
              + JsonSize(Tail(arr))

JsonFile(arr) == [exists |-> TRUE, kind |-> "json", arr |-> arr, size |-> JsonSize(arr)]

\* open(HISTORY_FILE, "w"): creates or truncates.
TruncatedFile == [exists |-> TRUE, kind |-> "empty", arr |-> <<>>, size |-> 0]

\* What is on disk after a handle opened with "w" writes `arr` from offset 0
\* and closes: a longer text already written through another handle keeps
\* its tail, which is no JSON document.
WriteThrough(file, arr) ==
    IF JsonSize(arr) >= file.size THEN JsonFile(arr)
    ELSE [exists |-> TRUE, kind |-> "garbled", arr |-> <<>>, size |-> file.size]

\* load_chat_history(): json.load raises on a text that is no JSON document.
load_chat_history(file) ==
    IF file.exists
    THEN IF file.kind = "json"
         THEN [raised |-> FALSE, value |-> FromJson(file.arr)]
         ELSE [raised |-> TRUE, value |-> <<>>]
    ELSE [raised |-> FALSE, value |-> <<>>]

\* save_chat_history, lines 53-57: msg['message'] = str(msg['message']) is
\* done on the message objects of the caller's list.
ConvertMessages(history) ==
    [i \in 1..Len(history) |->
        IF IsDict(history[i].message)
        THEN [history[i] EXCEPT !.message = Str(@)]
        ELSE history[i]]

\* save_chat_history(history): the caller's list as it is left, and the file.
save_chat_history(history, file) ==
    [history |-> ConvertMessages(history),
     file |-> JsonFile(ToJson(ConvertMessages(history)))]

\* Mutant: os.remove without the os.path.exists test
clear_chat_history_unguarded(file) ==
    [raised |-> ~file.exists, file |-> AbsentFile]

\* clear_chat_history(): if os.path.exists(...): os.remove(...)
clear_chat_history(file) ==
    IF file.exists THEN [raised |-> FALSE, file |-> AbsentFile]
    ELSE [raised |-> FALSE, file |-> file]

\* ------------------------------------------------------------------ inputs
\* What the user types into the "Chat" text input.
Queries ==
    { <<"M", "E", "E", "T", "I", "N", "G">>,
      <<"m", "e", "e", "t">>,
      <<"j", "o", "k", "e">> }

\* What the chains give back.  The general chain ends in StrOutputParser and
\* gives a str; save_chat_history provides for a dict-like response['answer'].
StrAnswers == { PyStr(<<"o", "k">>) }
DictAnswers == { PyDict(<<"{", "}">>) }
Completions(grounded) ==
    {Failure} \cup {Completion(a) : a \in StrAnswers}
              \cup (IF grounded THEN {Completion(a) : a \in DictAnswers} ELSE {})

\* ------------------------------------------------------------------- state
VARIABLES
    history,      \* st.session_state.history of each session
    has_history,  \* "history" in st.session_state
    connected,    \* the session's page has been drawn (sidebar button exists)
    file,         \* chat_history.json
    pc,           \* where each session's on_click_callback stands
    local,        \* its locals: user_input, the chain's result
    fd,           \* its handle on the file: "none", "open", "orphan"
    lastOp,       \* the last operation that ended, and what it did
    query,        \* classification on its own: the input ...
    classified    \* ... and "none", "grounded" or "general"

vars == <<history, has_history, connected, file, pc, local, fd, lastOp,
          query, classified>>

NoText == <<>>

RECURSIVE HeldUpTo(_)
\* Messages held in the histories of sessions 1..n: the model follows runs in
\* which the sessions together hold fewer than MaxTurns turns when one begins.
HeldUpTo(n) == IF n = 0 THEN 0 ELSE Len(history[n]) + HeldUpTo(n - 1)
Held == HeldUpTo(NumSessions)
NoLocal == [user_input |-> NoText, result |-> general_chain_invoke(NoText, Failure)]

Op(kind, s, status, user_input, res) ==
    [tick |-> 1 - lastOp.tick,
     prev |-> lastOp.kind,
     kind |-> kind,
     s |-> s,
     status |-> status,
     user_input |-> user_input,
     answer |-> res.answer,
     retrieverQuery |-> res.retrieverQuery,
     promptInput |-> res.promptInput,
     retrievalCalls |-> res.retrievalCalls,
     generalCalls |-> res.generalCalls]

NoCall == [raised |-> FALSE, answer |-> PyStr(NoText), retrieverQuery |-> NoText,
           promptInput |-> NoText, retrievalCalls |-> 0, generalCalls |-> 0]

Init ==
    /\ history = [s \in Sessions |-> <<>>]
    /\ has_history = [s \in Sessions |-> FALSE]
    /\ connected = [s \in Sessions |-> FALSE]
    /\ file = AbsentFile
    /\ pc = [s \in Sessions |-> "idle"]
    /\ local = [s \in Sessions |-> NoLocal]
    /\ fd = [s \in Sessions |-> "none"]
    /\ lastOp = [tick |-> 0, prev |-> "none", kind |-> "none", s |-> 1,
                 status |-> "ok", user_input |-> NoText, answer |-> PyStr(NoText),
                 retrieverQuery |-> NoText, promptInput |-> NoText,
                 retrievalCalls |-> 0, generalCalls |-> 0]
    /\ query = NoText
    /\ classified = "none"

\* ------------------------------------------- the handlers, run as a whole
\* A script run of a session that has no "history" yet (lines 128-133): the
\* sidebar button is drawn, then initialize_session_state() loads the file.
\* When load_chat_history raises the run ends there and the form is not drawn.
ScriptRun(s) ==
    /\ pc[s] = "idle"
    /\ ~has_history[s]
    /\ LET ld == load_chat_history(file) IN
        /\ connected' = [connected EXCEPT ![s] = TRUE]
        /\ has_history' = [has_history EXCEPT ![s] = ~ld.raised]
        /\ history' = [history EXCEPT ![s] = ld.value]
        /\ lastOp' = Op("load", s, IF ld.raised THEN "raised" ELSE "ok", NoText, NoCall)
    /\ UNCHANGED <<file, pc, local, fd, query, classified>>

\* Mutant: the history is saved between the two appends
Turn_save_before_answer(hist, f, user_input, r) ==
    LET res == Invoke(hist, user_input, r)
        asked == Append(hist, Message(Human, PyStr(user_input)))
        saved == save_chat_history(asked, f)
    IN IF res.raised
       THEN [status |-> "raised", history |-> hist, file |-> f, res |-> res]
       ELSE [status |-> "ok",
             history |-> ConvertMessages(Append(saved.history, Message(Ai, res.answer))),
             file |-> saved.file, res |-> res]

\* Mutant: the human message is appended before the chain is called
Turn_append_before_invoke(hist, f, user_input, r) ==
    LET res == Invoke(hist, user_input, r)
        asked == Append(hist, Message(Human, PyStr(user_input)))
        saved == save_chat_history(Append(asked, Message(Ai, res.answer)), f)
    IN IF res.raised
       THEN [status |-> "raised", history |-> asked, file |-> f, res |-> res]
       ELSE [status |-> "ok", history |-> saved.history, file |-> saved.file, res |-> res]

\* on_click_callback() as a whole (lines 105-125): what it leaves in the
\* session's history and in the file, and whether the chain call raised
\* (nothing after a raising call runs).
Turn(hist, f, user_input, r) ==
    LET res == Invoke(hist, user_input, r)
        saved == save_chat_history(AppendTurn(hist, user_input, res.answer), f)
    IN IF res.raised
       THEN [status |-> "raised", history |-> hist, file |-> f, res |-> res]
       ELSE [status |-> "ok", history |-> saved.history, file |-> saved.file, res |-> res]

\* Submit: on_click_callback(), then the rerun, which finds "history" in the
\* session state and loads nothing.
on_click_callback(s, user_input, r) ==
    /\ pc[s] = "idle"
    /\ has_history[s]
    /\ Held < 2 * MaxTurns
    /\ r \in Completions(is_coimbatore_query(user_input))
    /\ LET t == Turn(history[s], file, user_input, r) IN
        /\ history' = [history EXCEPT ![s] = t.history]
        /\ file' = t.file
        /\ lastOp' = Op("submit", s, t.status, user_input, t.res)
    /\ UNCHANGED <<has_history, connected, pc, local, fd, query, classified>>

\* New Chat (lines 128-130): history = [], then clear_chat_history().
NewChat(s) ==
    /\ pc[s] = "idle"
    /\ connected[s]
    /\ LET cl == clear_chat_history(file) IN
        /\ history' = [history EXCEPT ![s] = <<>>]
        /\ has_history' = [has_history EXCEPT ![s] = TRUE]
        /\ file' = cl.file
        /\ fd' = [t \in Sessions |->
                    IF file.exists /\ fd[t] = "open" THEN "orphan" ELSE fd[t]]
        /\ lastOp' = Op("clear", s, IF cl.raised THEN "raised" ELSE "ok", NoText, NoCall)
    /\ UNCHANGED <<connected, pc, local, query, classified>>

\* The process is stopped and started again: every session state is gone,
\* the file stays.
Restart ==
    /\ \E s \in Sessions : connected[s]
    /\ history' = [s \in Sessions |-> <<>>]
    /\ has_history' = [s \in Sessions |-> FALSE]
    /\ connected' = [s \in Sessions |-> FALSE]
    /\ pc' = [s \in Sessions |-> "idle"]
    /\ local' = [s \in Sessions |-> NoLocal]
    /\ fd' = [s \in Sessions |-> "none"]
    /\ lastOp' = Op("restart", 1, "ok", NoText, NoCall)
    /\ UNCHANGED <<file, query, classified>>

Next ==
    \/ \E s \in Sessions : ScriptRun(s)
    \/ \E s \in Sessions, q \in Queries, r \in Completions(TRUE) : on_click_callback(s, q, r)
    \/ \E s \in Sessions : NewChat(s)
    \/ Restart

Spec == Init /\ [][Next]_vars

\* ------------------------------------ the handlers, statement by statement
\* Streamlit runs each session's script and callbacks on that session's own
\* thread: sessions interleave, and the code takes no lock.

\* on_click_callback, lines 107-114/117: read the input, enter the chain call.
on_click_callback_begin(s, user_input) ==
    /\ pc[s] = "idle"
    /\ has_history[s]
    /\ Held < 2 * MaxTurns
    /\ pc' = [pc EXCEPT ![s] = "invoking"]
    /\ local' = [local EXCEPT ![s] = [NoLocal EXCEPT !.user_input = user_input]]
    /\ UNCHANGED <<history, has_history, connected, file, fd, lastOp, query, classified>>

\* lines 114-122: the chain call returns or raises; the two appends.
on_click_callback_append(s, r) ==
    /\ pc[s] = "invoking"
    /\ r \in Completions(is_coimbatore_query(local[s].user_input))
    /\ LET res == Invoke(history[s], local[s].user_input, r) IN
        IF res.raised
        THEN /\ pc' = [pc EXCEPT ![s] = "idle"]
             /\ local' = [local EXCEPT ![s] = NoLocal]
             /\ lastOp' = Op("submit", s, "raised", local[s].user_input, res)
             /\ UNCHANGED history
        ELSE /\ pc' = [pc EXCEPT ![s] = "appended"]
             /\ local' = [local EXCEPT ![s].result = res]
             /\ history' = [history EXCEPT
                              ![s] = AppendTurn(@, local[s].user_input, res.answer)]
             /\ UNCHANGED lastOp
    /\ UNCHANGED <<has_history, connected, file, fd, query, classified>>

\* save_chat_history, lines 53-57
save_chat_history_convert(s) ==
    /\ pc[s] = "appended"
    /\ pc' = [pc EXCEPT ![s] = "converted"]
    /\ history' = [history EXCEPT ![s] = ConvertMessages(@)]
    /\ UNCHANGED <<has_history, connected, file, local, fd, lastOp, query, classified>>

\* save_chat_history, line 59: open(HISTORY_FILE, "w")
save_chat_history_open(s) ==
    /\ pc[s] = "converted"
    /\ pc' = [pc EXCEPT ![s] = "opened"]
    /\ file' = TruncatedFile
    /\ fd' = [fd EXCEPT ![s] = "open"]
    /\ UNCHANGED <<history, has_history, connected, local, lastOp, query, classified>>

\* save_chat_history, line 60 and the end of the with block; a handle whose
\* file was removed meanwhile writes to a file no path leads to.
save_chat_history_dump(s) ==
    /\ pc[s] = "opened"
    /\ pc' = [pc EXCEPT ![s] = "idle"]
    /\ file' = IF fd[s] = "open" THEN WriteThrough(file, ToJson(history[s])) ELSE file
    /\ fd' = [fd EXCEPT ![s] = "none"]
    /\ local' = [local EXCEPT ![s] = NoLocal]
    /\ lastOp' = Op("submit", s, "ok", local[s].user_input, local[s].result)
    /\ UNCHANGED <<history, has_history, connected, query, classified>>

NextThreads ==
    \/ \E s \in Sessions : ScriptRun(s)
    \/ \E s \in Sessions, q \in Queries : on_click_callback_begin(s, q)
    \/ \E s \in Sessions, r \in Completions(TRUE) : on_click_callback_append(s, r)
    \/ \E s \in Sessions : save_chat_history_convert(s)
    \/ \E s \in Sessions : save_chat_history_open(s)
    \/ \E s \in Sessions : save_chat_history_dump(s)
    \/ \E s \in Sessions : NewChat(s)
    \/ Restart

SpecThreads == Init /\ [][NextThreads]_vars

\* ------------------------------------------------ classification on its own
Cased(text, mask) == [i \in 1..Len(text) |-> IF i \in mask THEN Upper(text[i]) ELSE text[i]]

ClassifyBases ==
    { Keyword,
      <<"m", "e", "e", "t", "i", "n", "s">>,
      <<"m", "e", "e", "t", " ", "i", "n", "g">> }
ClassifyPrefixes == { <<>>, <<"a", " ">> }
ClassifySuffixes == { <<>>, <<" ", "n", "o", "t", "e", "s">> }

ClassifyInputs ==
    { pre \o Cased(base[1], base[2]) \o suf :
        pre \in ClassifyPrefixes, suf \in ClassifySuffixes,
        base \in UNION { {b} \X SUBSET (1..Len(b)) : b \in ClassifyBases } }

InitClassify ==
    /\ history = [s \in Sessions |-> <<>>]
    /\ has_history = [s \in Sessions |-> FALSE]
    /\ connected = [s \in Sessions |-> FALSE]
    /\ file = AbsentFile
    /\ pc = [s \in Sessions |-> "idle"]
    /\ local = [s \in Sessions |-> NoLocal]
    /\ fd = [s \in Sessions |-> "none"]
    /\ lastOp = [tick |-> 0, prev |-> "none", kind |-> "none", s |-> 1,
                 status |-> "ok", user_input |-> NoText, answer |-> PyStr(NoText),
                 retrieverQuery |-> NoText, promptInput |-> NoText,
                 retrievalCalls |-> 0, generalCalls |-> 0]
    /\ query \in ClassifyInputs
    /\ classified = "none"

Classify ==
    /\ classified = "none"
    /\ classified' = IF is_coimbatore_query(query) THEN "grounded" ELSE "general"
    /\ UNCHANGED <<history, has_history, connected, file, pc, local, fd, lastOp, query>>

NextClassify == Classify

SpecClassify == InitClassify /\ [][NextClassify]_vars

\* ------------------------------------------------------------- properties
\* The step ends an operation of the given kind.
Ends(kind) == lastOp'.tick /= lastOp.tick /\ lastOp'.kind = kind

\* text contains "meeting" in some mix of upper and lower case
ContainsIgnoringCase(text) ==
    \E i \in 0..(Len(text) - Len(Keyword)) :
        \A j \in 1..Len(Keyword) : text[i + j] \in {Keyword[j], Upper(Keyword[j])}

\* a and b differ in letter case only
SameIgnoringCase(a, b) ==
    /\ Len(a) = Len(b)
    /\ \A i \in 1..Len(a) : a[i] = b[i] \/ a[i] = Upper(b[i]) \/ b[i] = Upper(a[i])

IsPrefix(a, b) == Len(a) <= Len(b) /\ \A i \in 1..Len(a) : a[i] = b[i]

\* human, ai, human, ai, ...
Alternates(h) ==
    \A i \in 1..Len(h) : h[i].origin = (IF i % 2 = 1 THEN Human ELSE Ai)

\* The file's records are the messages of h, one for one and in order.
FileHolds(f, h) ==
    /\ f.exists
    /\ f.kind = "json"
    /\ Len(f.arr) = Len(h)
    /\ \A i \in 1..Len(h) :
        /\ f.arr[i].origin.json = "string"
        /\ h[i].origin.type = "str"
        /\ f.arr[i].origin.val = h[i].origin.val
        /\ f.arr[i].message.json = "string"
        /\ h[i].message.type = "str"
        /\ f.arr[i].message.val = h[i].message.val

RECURSIVE Flattened(_)
\* one "<origin>: <text>" line per message, oldest first, "\n" between lines
Flattened(h) ==
    IF Len(h) = 0 THEN <<>>
    ELSE (IF Len(h) = 1 THEN <<>>
          ELSE Flattened(SubSeq(h, 1, Len(h) - 1)) \o <<"\n">>)
         \o h[Len(h)].origin.val \o <<":", " ">> \o h[Len(h)].message.val

C2_FailedTurnChangesNothing ==
    [][(Ends("submit") /\ lastOp'.status = "raised") =>
          (history' = history /\ file' = file)]_vars

C2_Witness ==
    /\ lastOp.kind = "submit" /\ lastOp.status = "raised"
    /\ Len(history[lastOp.s]) = 2
    /\ file.exists

\* C3: a successful submission extends the session's history by the human
\* message with the query and then the assistant message with the answer (in
\* its string form), and the history alternates human, ai and has even length.
C3_TurnAppendsTwo ==
    [][(Ends("submit") /\ lastOp'.status = "ok") =>
          /\ history'[lastOp'.s] =
                history[lastOp'.s]
                    \o << Message(Human, PyStr(lastOp'.user_input)),
                          Message(Ai, Str(lastOp'.answer)) >>
          /\ Alternates(history'[lastOp'.s])
          /\ Len(history'[lastOp'.s]) % 2 = 0]_vars

C3_Witness ==
    /\ lastOp.kind = "submit" /\ lastOp.status = "ok" /\ lastOp.prev = "submit"
    /\ Len(history[lastOp.s]) = 4

\* C4: at most one turn is in flight at a time, over all sessions.
C4_OneTurnInFlight == Cardinality({s \in Sessions : pc[s] /= "idle"}) <= 1

\* C5: a query without "meeting" (in any letter case) makes no retrieval call
\* and exactly one call of the general chain.
C5_GeneralPathNoRetrieval ==
    (lastOp.kind = "submit" /\ ~ContainsIgnoringCase(lastOp.user_input)) =>
        /\ lastOp.retrievalCalls = 0
        /\ lastOp.generalCalls = 1
        /\ lastOp.retrieverQuery = NoText

C5_Witness ==
    /\ lastOp.kind = "submit" /\ lastOp.status = "ok"
    /\ ~ContainsIgnoringCase(lastOp.user_input)
    /\ Len(history[lastOp.s]) = 4

\* C6: a query is classified Grounded exactly when it contains "meeting"
\* ignoring letter case, and queries that differ in letter case only are
\* classified alike.
C6_CaseInsensitiveMatch ==
    classified /= "none" =>
        /\ (classified = "grounded") <=> ContainsIgnoringCase(query)
        /\ \A other \in ClassifyInputs :
              SameIgnoringCase(query, other) =>
                  (is_coimbatore_query(other) <=> (classified = "grounded"))

C6_Witness ==
    /\ classified = "grounded"
    /\ query /= lower(query)
    /\ \E other \in ClassifyInputs : other /= query /\ SameIgnoringCase(query, other)

\* C7: a clear leaves the session's history empty and the file absent and
\* does not fail, with or without a file; a clear right after a clear changes
\* nothing.
C7_ClearIdempotent ==
    [][Ends("clear") =>
          /\ lastOp'.status = "ok"
          /\ history'[lastOp'.s] = <<>>
          /\ ~file'.exists
          /\ (lastOp.kind = "clear" /\ lastOp.s = lastOp'.s) =>
                (history' = history /\ file' = file)]_vars

C7_Witness ==
    /\ lastOp.kind = "clear" /\ lastOp.prev = "clear"
    /\ \E s \in Sessions : s /= lastOp.s /\ Len(history[s]) > 0

\* C8: load_chat_history never raises: it gives the persisted history when the
\* file is there and readable, and the empty history when the file is missing
\* or cannot be parsed.
C8_LoadNeverRaises ==
    lastOp.kind = "load" =>
        /\ lastOp.status = "ok"
        /\ has_history[lastOp.s]
        /\ history[lastOp.s] = (IF file.kind = "json" THEN FromJson(file.arr) ELSE <<>>)

\* C9: without a clear, what a session's history held stays, unchanged, a
\* prefix of what it holds next; save_chat_history changes no message of it.
C9_AppendOnly ==
    [][\A s \in Sessions :
          (has_history[s] /\ has_history'[s] /\ ~(Ends("clear") /\ lastOp'.s = s)) =>
              IsPrefix(history[s], history'[s])]_vars

\* C10 as stated: on the Grounded path the retriever is given the flattened
\* history, a newline and the query, and {input} is filled with the query alone.
C10_PromptGetsRawQuery ==
    [][(Ends("submit") /\ ContainsIgnoringCase(lastOp'.user_input)) =>
          /\ lastOp'.retrieverQuery =
                Flattened(history[lastOp'.s]) \o <<"\n">> \o lastOp'.user_input
          /\ lastOp'.promptInput = lastOp'.user_input]_vars

\* C10 amended: on the Grounded path the retriever and {input} are both given
\* the flattened history, a newline and the query.
C10_PromptGetsRetrievalInput ==
    [][(Ends("submit") /\ ContainsIgnoringCase(lastOp'.user_input)) =>
          /\ lastOp'.retrievalCalls = 1
          /\ lastOp'.retrieverQuery =
                Flattened(history[lastOp'.s]) \o <<"\n">> \o lastOp'.user_input
          /\ lastOp'.promptInput = lastOp'.retrieverQuery]_vars

C10_Witness ==
    /\ lastOp.kind = "submit" /\ lastOp.status = "ok"
    /\ ContainsIgnoringCase(lastOp.user_input)
    /\ Len(history[lastOp.s]) = 4

====
